---- MODULE Spec2Model ----
(***************************************************************************)
(* Model of src/data_fetch/enhance_user_metrics.py: the batch loop of      *)
(* main, enhance_user, and the cost-basis ledger inside                    *)
(* fetch_user_trades_with_prices and fetch_user_positions_dollars.         *)
(*                                                                         *)
(* Python floats are modelled as exact rationals <<n, d>> (d > 0, lowest   *)
(* terms); round(x, 2) is modelled as round-half-even to hundredths.       *)
(* Binary floating-point rounding error is not modelled.                   *)
(***************************************************************************)
EXTENDS Integers, Sequences, FiniteSets, TLC

(* ------------------------------ bounds -------------------------------- *)

\* Longest trade list the trades endpoint answers with in the model.
MaxTrades == 3

\* Longest live-position list the positions endpoint answers with.
MaxLive == 2

\* Number of wallets in the input CSV of the batch specification.
NumWallets == 2

(* ------------------------- rational arithmetic ------------------------ *)

Abs(x) == IF x < 0 THEN -x ELSE x

RECURSIVE GCD(_, _)
GCD(a, b) == IF b = 0 THEN a ELSE GCD(b, a % b)

\* The rational n/d in lowest terms with a positive denominator.
Norm(n, d) ==
    LET s == IF d < 0 THEN -1 ELSE 1
        g == GCD(Abs(n), Abs(d))
    IN  <<(s * n) \div g, (s * d) \div g>>

Zero == <<0, 1>>

R(n) == <<n, 1>>

RAdd(a, b) == Norm(a[1] * b[2] + b[1] * a[2], a[2] * b[2])

RSub(a, b) == Norm(a[1] * b[2] - b[1] * a[2], a[2] * b[2])

RMul(a, b) == Norm(a[1] * b[1], a[2] * b[2])

\* a / b, used only where the code has established b > 0.
RDiv(a, b) == Norm(a[1] * b[2], a[2] * b[1])

RPos(a) == a[1] > 0

RNeg(a) == a[1] < 0

RGeq(a, b) == a[1] * b[2] >= b[1] * a[2]

\* round(x, 2): the nearest hundredth, ties to the even hundredth.
Round2(x) ==
    LET num == 100 * x[1]
        q   == num \div x[2]
        rem == num - q * x[2]
        k   == IF 2 * rem < x[2] THEN q
               ELSE IF 2 * rem > x[2] THEN q + 1
               ELSE IF q % 2 = 0 THEN q ELSE q + 1
    IN  Norm(k, 100)

(* ---------------------- raw JSON values and records ------------------- *)

\* A JSON field as the API delivers it: a number, a numeric string, a
\* non-numeric string, null, or no such field in the record.
Num(n) == [tag |-> "num", val |-> R(n)]

\* A JSON number with a fractional part, n / d.
Dec(n, d) == [tag |-> "num", val |-> Norm(n, d)]

NumStr(n) == [tag |-> "numstr", val |-> R(n)]

BadStr == [tag |-> "badstr", val |-> Zero]

Null == [tag |-> "null", val |-> Zero]

Missing == [tag |-> "missing", val |-> Zero]

\* item.get(field, 0): the default 0 stands in for a missing field.
Get(raw) == IF raw.tag = "missing" THEN Num(0) ELSE raw

\* Python truthiness of a JSON value: None and the number 0 are falsy,
\* every non-empty string (also "0") is truthy.
Falsy(v) == v.tag = "null" \/ (v.tag = "num" /\ v.val = Zero)

\* v or 0
OrZero(v) == IF Falsy(v) THEN Num(0) ELSE v

\* float(item.get(field, 0) or 0): ok is FALSE when float() raises
\* ValueError on a non-numeric string.
ToFloat(raw) ==
    LET v == OrZero(Get(raw))
    IN  IF v.tag = "badstr" THEN [ok |-> FALSE, val |-> Zero]
        ELSE [ok |-> TRUE, val |-> v.val]

\* str.upper() on a string given as a sequence of characters.
UpperChar(c) ==
    CASE c = "b" -> "B" [] c = "u" -> "U" [] c = "y" -> "Y"
      [] c = "s" -> "S" [] c = "e" -> "E" [] c = "l" -> "L"
      [] c = "h" -> "H" [] c = "o" -> "O" [] c = "d" -> "D"
      [] OTHER -> c

\* Variant: the side is compared as received, without upper-casing.
Upper_Identity(s) == s

Upper(s) == [j \in 1..Len(s) |-> UpperChar(s[j])]

BUY == <<"B", "U", "Y">>

SELL == <<"S", "E", "L", "L">>

(* ------------------------------ inputs -------------------------------- *)

WalletNames == <<"0xaaa1", "0xbbb2", "0xccc3", "0xddd4">>

\* The rows of the input CSV: one per wallet.
UserRows(n) == [j \in 1..n |-> [wallet |-> WalletNames[j]]]

\* (market_id, outcome) position keys.
Keys == {<<"m1", "Yes">>, <<"m2", "No">>}

Trade(side, key, size, price) ==
    [side |-> side, market |-> key[1], outcome |-> key[2],
     size |-> size, price |-> price]

\* Well-formed trade records: numeric size >= 0 and price >= 0. Every side,
\* size and price on the first key; the second key trades at one price.
LedgerTrades ==
    {Trade(sd, <<"m1", "Yes">>, Num(sz), Num(pr)) :
        sd \in {BUY, SELL}, sz \in {0, 5, 10}, pr \in {1, 2, 3}}
    \cup {Trade(sd, <<"m2", "No">>, Num(sz), Num(1)) :
        sd \in {BUY, SELL}, sz \in {0, 5, 10}}

\* Trade records of the batch specification: well-formed ones and records
\* whose size or price is missing, null or a non-numeric string.
BatchTrades ==
    {Trade(BUY, <<"m1", "Yes">>, Num(2), Num(1)),
     Trade(SELL, <<"m1", "Yes">>, Num(1), Num(2)),
     Trade(BUY, <<"m1", "Yes">>, BadStr, Num(1)),
     Trade(BUY, <<"m1", "Yes">>, Num(5), BadStr),
     Trade(BUY, <<"m1", "Yes">>, Null, Num(1)),
     Trade(BUY, <<"m1", "Yes">>, Num(5), Missing)}

\* Trade records whose side is spelled in lower, mixed and upper case, or is
\* no side the ledger knows.
SideTrades ==
    {Trade(sd, <<"m1", "Yes">>, Num(sz), Num(pr)) :
        sd \in {<<"b", "u", "y">>, <<"B", "u", "y">>, <<"s", "e", "l", "l">>,
                SELL, <<"H", "o", "l", "d">>},
        sz \in {5, 10}, pr \in {1, 2}}

\* One BUY and a winning, a losing and a break-even SELL against it.
RateTrades ==
    {Trade(BUY, <<"m1", "Yes">>, Num(10), Num(2)),
     Trade(SELL, <<"m1", "Yes">>, Num(2), Num(3)),
     Trade(SELL, <<"m1", "Yes">>, Num(2), Num(1)),
     Trade(SELL, <<"m1", "Yes">>, Num(2), Num(2))}

\* Longest trade list of a wallet in the isolation specification.
MaxWalletTrades == 2

\* Longest trade list of the win-rate specification.
MaxRateTrades == 4

\* Trades that open positions for the live positions to be matched against.
PositionTrades ==
    {Trade(BUY, <<"m1", "Yes">>, Num(5), Num(1)),
     Trade(BUY, <<"m1", "Yes">>, Num(10), Num(2)),
     Trade(SELL, <<"m1", "Yes">>, Num(5), Num(2)),
     Trade(BUY, <<"m2", "No">>, Num(5), Num(1))}

\* The trades of the end-to-end scenario: 100 @ 0.30, 50 @ 0.50, 80 @ 0.60.
ScenarioTrades ==
    {Trade(BUY, <<"m1", "Yes">>, Num(100), Dec(3, 10)),
     Trade(BUY, <<"m1", "Yes">>, Num(50), Dec(1, 2)),
     Trade(SELL, <<"m1", "Yes">>, Num(80), Dec(3, 5))}

\* Trades of the wallets of the isolation specification: every wallet can
\* buy and sell on the same key as the wallet before it.
IsolationTrades ==
    {Trade(BUY, <<"m1", "Yes">>, Num(10), Num(1)),
     Trade(SELL, <<"m1", "Yes">>, Num(5), Num(3)),
     Trade(BUY, <<"m2", "No">>, Num(4), Num(1))}

\* All lists over S of length 1..n.
ListsUpTo(S, n) == UNION {[1..m -> S] : m \in 1..n}

LedgerFeed == ListsUpTo(LedgerTrades, MaxTrades)

BatchFeed == ListsUpTo(BatchTrades, MaxTrades)

SideFeed == ListsUpTo(SideTrades, MaxTrades)

RateFeed == ListsUpTo(RateTrades, MaxRateTrades)

ScenarioFeed == ListsUpTo(ScenarioTrades, MaxTrades)

IsolationFeed == ListsUpTo(IsolationTrades, MaxWalletTrades)

PositionFeed == ListsUpTo(PositionTrades, MaxTrades)

Live(key, size, tokens, price) ==
    [market |-> key[1], outcome |-> key[2],
     size |-> size, tokens |-> tokens, price |-> price]

LiveEntries ==
    {Live(k, Num(sz), Missing, Num(pr)) : k \in Keys, sz \in {2}, pr \in {1, 3}}
    \cup {Live(<<"m1", "Yes">>, Missing, Num(1), Num(3)),
          Live(<<"m1", "Yes">>, Num(1), Missing, BadStr)}

LiveFeed == {<<>>} \cup ListsUpTo(LiveEntries, MaxLive)

BatchLiveFeed == {<<>>, <<Live(<<"m1", "Yes">>, Num(2), Missing, Num(3))>>}

(* ------------------------------- state -------------------------------- *)

VARIABLES
    users,               \* main: rows read from the input CSV
    i,                   \* main: number of users the loop has finished
    enhanced_users,      \* main: rows produced so far
    output,              \* main: rows written to the output CSV
    pc,                  \* position of the program
    exc,                 \* exception that propagated out of main ("" = none)
    items,               \* fetch_user_trades_with_prices: the trade list
    item_idx,            \*   number of items the for loop has processed
    total_dollar_volume,
    trade_count,
    positions,           \*   (market_id, outcome) -> shares, cost_basis
    realized_pnl,
    winning_trades,
    losing_trades,
    ret,                 \*   the value the function returned
    trade_metrics,       \* enhance_user: first element of the unpacked result
    open_positions,      \* enhance_user: second element
    position_metrics,    \* enhance_user: result of fetch_user_positions_dollars
    live_items,          \* fetch_user_positions_dollars: the position list
    position_value_dollars, \*   running sum of size * price (unrounded)
    unrealized_pnl,      \*   running unrealized PnL (unrounded)
    fin_pc,              \* add_financial_metrics: position of enrich_user_financials
    user_row,            \*   the row enrich_user_financials updates in place
    total_cash_volume,   \*   result of fetch_trades_with_usd
    closed_items,        \* fetch_closed_positions: the closed-position list
    closed_idx,          \*   number of items the for loop has processed
    closed_realized_pnl, \*   its local realized_pnl
    closed_count,
    winning_count,
    closed_ret,          \*   the tuple it returned
    LLM_PROVIDER,        \* analyze_user_portfolios: module configuration
    OPENAI_API_KEY,
    XAI_API_KEY,
    llm_users,           \* analyze_users: rows read from the input CSV
    llm_i,               \*   number of users its loop has finished
    enriched_users,      \*   rows with the five scores added
    llm_output,          \*   rows written to the output CSV
    llm_pc,              \*   position of analyze_users / call_llm
    llm_exc,             \*   exception that ended the run ("" if none)
    limit,               \* fetch_all_markets: its limit argument
    all_markets,         \*   number of markets in its all_markets list
    offset,
    markets_pc,          \*   position of fetch_all_markets
    markets_ret          \*   length of the list it returned (-1 before)

frame == <<items, item_idx, total_dollar_volume, trade_count, positions,
           realized_pnl, winning_trades, losing_trades>>

mainvars == <<users, i, enhanced_users, output, exc>>

enhvars == <<trade_metrics, open_positions, position_metrics>>

liveframe == <<live_items, position_value_dollars, unrealized_pnl>>

closedframe == <<closed_items, closed_idx, closed_realized_pnl, closed_count,
                 winning_count>>

finvars == <<fin_pc, user_row, total_cash_volume, closed_items, closed_idx,
             closed_realized_pnl, closed_count, winning_count, closed_ret>>

ledgervars == <<users, i, enhanced_users, output, pc, exc, items, item_idx,
                total_dollar_volume, trade_count, positions, realized_pnl,
                winning_trades, losing_trades, ret, trade_metrics, open_positions,
                position_metrics, live_items, position_value_dollars,
                unrealized_pnl>>

llmvars == <<LLM_PROVIDER, OPENAI_API_KEY, XAI_API_KEY, llm_users, llm_i,
             enriched_users, llm_output, llm_pc, llm_exc>>

marketvars == <<limit, all_markets, offset, markets_pc, markets_ret>>

\* The variables outside enhance_user_metrics.
othervars == <<finvars, llmvars, marketvars>>

vars == <<users, i, enhanced_users, output, pc, exc, items, item_idx,
          total_dollar_volume, trade_count, positions, realized_pnl,
          winning_trades, losing_trades, ret, trade_metrics, open_positions,
          position_metrics, live_items, position_value_dollars, unrealized_pnl,
          fin_pc, user_row, total_cash_volume, closed_items, closed_idx,
          closed_realized_pnl, closed_count, winning_count, closed_ret,
          LLM_PROVIDER, OPENAI_API_KEY, XAI_API_KEY, llm_users, llm_i,
          enriched_users, llm_output, llm_pc, llm_exc,
          limit, all_markets, offset, markets_pc, markets_ret>>

(* ----------------------- ledger helper operators ---------------------- *)

EmptyDict == [k \in {} |-> Zero]

\* The all-zero metrics dict of the empty and the failure returns.
ZeroMetrics ==
    [total_dollar_volume |-> Zero, avg_trade_dollars |-> Zero,
     realized_pnl |-> Zero, win_rate |-> Zero,
     winning_trades |-> 0, losing_trades |-> 0, total_trades |-> 0]

\* Keys of the metrics dict in insertion order: what iterating it yields.
MetricKeys ==
    <<"total_dollar_volume", "avg_trade_dollars", "realized_pnl", "win_rate",
      "winning_trades", "losing_trades", "total_trades">>

ZeroPositionMetrics == [position_value_dollars |-> Zero, unrealized_pnl |-> Zero]

\* A returned 2-tuple, and a returned bare dict.
TupleOf(m, p) == [kind |-> "tuple", elems |-> <<m, p>>]

DictOf(m) == [kind |-> "dict", elems |-> <<m>>]

NoRet == [kind |-> "none", elems |-> <<>>]

\* The sequence that unpacking iterates: a tuple's elements, a dict's keys.
Iter(r) == IF r.kind = "dict" THEN MetricKeys ELSE r.elems

\* Variant: the share count is taken for the dollar amount.
DollarAmount_SharesOnly(size, price) == size

\* dollar_amount = size * price
DollarAmount(size, price) == RMul(size, price)

\* position_key in positions and positions[position_key]["shares"] > 0
Matched(pos, key) == key \in DOMAIN pos /\ RPos(pos[key].shares)

\* Variant: shares per dollar instead of dollars per share.
AvgCost_Inverted(p) == RDiv(p.shares, p.cost_basis)

\* avg_cost = cost_basis / shares
AvgCost(p) == RDiv(p.cost_basis, p.shares)

\* Variant: the proceeds are taken as the PnL.
TradePnl_ProceedsOnly(p, size, dollar_amount) == dollar_amount

\* Variant: the cost of the shares sold is clamped to the shares held.
TradePnl_Clamped(p, size, dollar_amount) ==
    RSub(dollar_amount,
         RMul(AvgCost(p), IF RGeq(size, p.shares) THEN p.shares ELSE size))

\* trade_pnl = sell_proceeds - avg_cost * size
TradePnl(p, size, dollar_amount) == RSub(dollar_amount, RMul(AvgCost(p), size))

\* Variant: a break-even sell counts as a win.
IsWin_NonNegative(trade_pnl) == trade_pnl[1] >= 0

\* if trade_pnl > 0: winning_trades += 1
IsWin(trade_pnl) == RPos(trade_pnl)

\* elif trade_pnl < 0: losing_trades += 1
IsLoss(trade_pnl) == ~IsWin(trade_pnl) /\ RNeg(trade_pnl)

\* Variant: a BUY adds its shares but not its cost.
ApplyBuy_NoCost(pos, key, size, dollar_amount) ==
    LET old == IF key \in DOMAIN pos THEN pos[key]
               ELSE [shares |-> Zero, cost_basis |-> Zero]
    IN  [k \in DOMAIN pos \cup {key} |->
            IF k = key THEN [shares |-> RAdd(old.shares, size),
                             cost_basis |-> old.cost_basis]
            ELSE pos[k]]

\* Variant: a BUY assigns the position instead of adding to it.
ApplyBuy_Overwrite(pos, key, size, dollar_amount) ==
    [k \in DOMAIN pos \cup {key} |->
        IF k = key THEN [shares |-> size, cost_basis |-> dollar_amount] ELSE pos[k]]

\* The BUY branch: create the entry if absent, then add size and dollars.
ApplyBuy(pos, key, size, dollar_amount) ==
    LET old == IF key \in DOMAIN pos THEN pos[key]
               ELSE [shares |-> Zero, cost_basis |-> Zero]
        new == [shares |-> RAdd(old.shares, size),
                cost_basis |-> RAdd(old.cost_basis, dollar_amount)]
    IN  [k \in DOMAIN pos \cup {key} |-> IF k = key THEN new ELSE pos[k]]

\* Variant: closing a position clears the whole mapping.
ApplySell_ClearsAll(pos, key, size) ==
    LET avg  == AvgCost(pos[key])
        left == RSub(pos[key].shares, size)
    IN  IF RPos(left)
        THEN [pos EXCEPT ![key] = [shares |-> left, cost_basis |-> RMul(avg, left)]]
        ELSE EmptyDict

\* Variant: the entry is deleted only when exactly 0 shares are left.
ApplySell_KeepOversold(pos, key, size) ==
    LET avg  == AvgCost(pos[key])
        left == RSub(pos[key].shares, size)
    IN  IF left # Zero
        THEN [pos EXCEPT ![key] = [shares |-> left, cost_basis |-> RMul(avg, left)]]
        ELSE [k \in DOMAIN pos \ {key} |-> pos[k]]

\* Variant: the entry is never deleted, whatever shares are left.
ApplySell_NoDelete(pos, key, size) ==
    LET avg  == AvgCost(pos[key])
        left == RSub(pos[key].shares, size)
    IN  [pos EXCEPT ![key] = [shares |-> left, cost_basis |-> RMul(avg, left)]]

\* Variant: a partial SELL reduces the shares and keeps the cost basis.
ApplySell_KeepBasis(pos, key, size) ==
    LET left == RSub(pos[key].shares, size)
    IN  IF RPos(left)
        THEN [pos EXCEPT ![key].shares = left]
        ELSE [k \in DOMAIN pos \ {key} |-> pos[k]]

\* Variant: a closed position is zeroed in place instead of removed.
ApplySell_ZeroNotDelete(pos, key, size) ==
    LET avg  == AvgCost(pos[key])
        left == RSub(pos[key].shares, size)
    IN  IF RPos(left)
        THEN [pos EXCEPT ![key] = [shares |-> left, cost_basis |-> RMul(avg, left)]]
        ELSE [pos EXCEPT ![key].shares = Zero]

\* The position update of a matched SELL: reduce the shares, re-derive the
\* cost basis from the pre-sell average cost, or delete the entry.
ApplySell(pos, key, size) ==
    LET avg  == AvgCost(pos[key])
        left == RSub(pos[key].shares, size)
    IN  IF RPos(left)
        THEN [pos EXCEPT ![key] = [shares |-> left, cost_basis |-> RMul(avg, left)]]
        ELSE [k \in DOMAIN pos \ {key} |-> pos[k]]

\* Variant: the volume is not divided.
AvgTradeDollars_Volume(volume, count) == volume

\* avg_trade_dollars = total_dollar_volume / trade_count if trade_count > 0 else 0.0
AvgTradeDollars(volume, count) == IF count > 0 THEN RDiv(volume, R(count)) ELSE Zero

\* Variant: the wins are taken per loss instead of per closed trade.
WinRate_PerLoss(w, l) ==
    IF w + l > 0 THEN RMul(RDiv(R(w), R(IF l > 0 THEN l ELSE 1)), R(100)) ELSE Zero

\* Variant: the rate is left as a fraction.
WinRate_Fraction(w, l) == IF w + l > 0 THEN RDiv(R(w), R(w + l)) ELSE Zero

\* win_rate = winning / (winning + losing) * 100 if winning + losing > 0 else 0.0
WinRate(w, l) == IF w + l > 0 THEN RMul(RDiv(R(w), R(w + l)), R(100)) ELSE Zero

\* The metrics dict built after the loop.
Metrics(volume, count, pnl, w, l) ==
    [total_dollar_volume |-> Round2(volume),
     avg_trade_dollars |-> Round2(AvgTradeDollars(volume, count)),
     realized_pnl |-> Round2(pnl), win_rate |-> Round2(WinRate(w, l)),
     winning_trades |-> w, losing_trades |-> l, total_trades |-> count]

(* -------------------- fetch_user_positions_dollars -------------------- *)

\* float(item.get("size", 0) or item.get("tokens", 0) or 0)
LiveSize(item) ==
    LET a == Get(item.size)
        b == IF Falsy(a) THEN Get(item.tokens) ELSE a
    IN  ToFloat(b)

\* Variant: only an entry matching an open position adds to the value.
LiveStep_ValueOnlyMatched(acc, item, open) ==
    LET sz  == LiveSize(item)
        pr  == ToFloat(item.price)
        key == <<item.market, item.outcome>>
        current_value == RMul(sz.val, pr.val)
    IN  IF ~acc.ok \/ ~sz.ok \/ ~pr.ok
        THEN [ok |-> FALSE, value |-> acc.value, unrealized |-> acc.unrealized]
        ELSE IF Matched(open, key)
             THEN [ok |-> TRUE,
                   value |-> RAdd(acc.value, current_value),
                   unrealized |->
                       RAdd(acc.unrealized,
                            RSub(current_value, RMul(sz.val, AvgCost(open[key]))))]
             ELSE [ok |-> TRUE, value |-> acc.value, unrealized |-> acc.unrealized]

\* Variant: the initial cost is taken over the shares the ledger holds.
LiveStep_LedgerShares(acc, item, open) ==
    LET sz  == LiveSize(item)
        pr  == ToFloat(item.price)
        key == <<item.market, item.outcome>>
        current_value == RMul(sz.val, pr.val)
    IN  IF ~acc.ok \/ ~sz.ok \/ ~pr.ok
        THEN [ok |-> FALSE, value |-> acc.value, unrealized |-> acc.unrealized]
        ELSE [ok |-> TRUE,
              value |-> RAdd(acc.value, current_value),
              unrealized |->
                  IF Matched(open, key)
                  THEN RAdd(acc.unrealized,
                            RSub(current_value,
                                 RMul(open[key].shares, AvgCost(open[key]))))
                  ELSE acc.unrealized]

\* One iteration of the loop over the live positions: acc holds
\* position_value_dollars and unrealized_pnl; ok is FALSE once float() raised.
LiveStep(acc, item, open) ==
    LET sz  == LiveSize(item)
        pr  == ToFloat(item.price)
        key == <<item.market, item.outcome>>
        current_value == RMul(sz.val, pr.val)
    IN  IF ~acc.ok \/ ~sz.ok \/ ~pr.ok
        THEN [ok |-> FALSE, value |-> acc.value, unrealized |-> acc.unrealized]
        ELSE [ok |-> TRUE,
              value |-> RAdd(acc.value, current_value),
              unrealized |->
                  IF Matched(open, key)
                  THEN RAdd(acc.unrealized,
                            RSub(current_value, RMul(sz.val, AvgCost(open[key]))))
                  ELSE acc.unrealized]

RECURSIVE LiveFold(_, _, _)
LiveFold(acc, live, open) ==
    IF live = <<>> THEN acc
    ELSE LiveFold(LiveStep(acc, Head(live), open), Tail(live), open)

\* Variant: the except branch returns the totals accumulated so far.
PositionMetrics_KeepsPartial(live, open) ==
    LET acc == LiveFold([ok |-> TRUE, value |-> Zero, unrealized |-> Zero], live, open)
    IN  [position_value_dollars |-> Round2(acc.value),
         unrealized_pnl |-> Round2(acc.unrealized)]

\* The dict fetch_user_positions_dollars returns for a fetched list: the
\* rounded totals, or the zero dict of the except branch.
PositionMetrics(live, open) ==
    LET acc == LiveFold([ok |-> TRUE, value |-> Zero, unrealized |-> Zero], live, open)
    IN  IF acc.ok
        THEN [position_value_dollars |-> Round2(acc.value),
              unrealized_pnl |-> Round2(acc.unrealized)]
        ELSE ZeroPositionMetrics

(* ----------------------------- enhance_user --------------------------- *)

\* Variant: total_pnl carries the realized PnL alone.
EnhancedRow_RealizedOnly(row, tm, pm) ==
    [wallet |-> row.wallet,
     total_dollar_volume |-> tm.total_dollar_volume,
     avg_trade_dollars |-> tm.avg_trade_dollars,
     realized_pnl |-> tm.realized_pnl,
     unrealized_pnl |-> pm.unrealized_pnl,
     total_pnl |-> Round2(tm.realized_pnl),
     win_rate_percent |-> tm.win_rate,
     winning_trades |-> tm.winning_trades,
     losing_trades |-> tm.losing_trades,
     position_value_dollars |-> pm.position_value_dollars]

\* enhanced_row = row.copy(); enhanced_row.update({...})
EnhancedRow(row, tm, pm) ==
    [wallet |-> row.wallet,
     total_dollar_volume |-> tm.total_dollar_volume,
     avg_trade_dollars |-> tm.avg_trade_dollars,
     realized_pnl |-> tm.realized_pnl,
     unrealized_pnl |-> pm.unrealized_pnl,
     total_pnl |-> Round2(RAdd(tm.realized_pnl, pm.unrealized_pnl)),
     win_rate_percent |-> tm.win_rate,
     winning_trades |-> tm.winning_trades,
     losing_trades |-> tm.losing_trades,
     position_value_dollars |-> pm.position_value_dollars]

(* ------------------------------- actions ------------------------------ *)

InitWith(rows) ==
    /\ users = rows
    /\ i = 0
    /\ enhanced_users = <<>>
    /\ output = <<>>
    /\ pc = "main_loop"
    /\ exc = ""
    /\ items = <<>>
    /\ item_idx = 0
    /\ total_dollar_volume = Zero
    /\ trade_count = 0
    /\ positions = EmptyDict
    /\ realized_pnl = Zero
    /\ winning_trades = 0
    /\ losing_trades = 0
    /\ ret = NoRet
    /\ trade_metrics = ZeroMetrics
    /\ open_positions = EmptyDict
    /\ position_metrics = ZeroPositionMetrics
    /\ live_items = <<>>
    /\ position_value_dollars = Zero
    /\ unrealized_pnl = Zero
    /\ fin_pc = "start"
    /\ user_row = rows[1]
    /\ total_cash_volume = Zero
    /\ closed_items = <<>>
    /\ closed_idx = 0
    /\ closed_realized_pnl = Zero
    /\ closed_count = 0
    /\ winning_count = 0
    /\ closed_ret = <<>>

\* Variant: the position mapping outlives the call.
FreshFrame_KeepsPositions(its) ==
    /\ items' = its
    /\ item_idx' = 0
    /\ total_dollar_volume' = Zero
    /\ trade_count' = 0
    /\ positions' = positions
    /\ realized_pnl' = Zero
    /\ winning_trades' = 0
    /\ losing_trades' = 0

\* The locals of fetch_user_trades_with_prices at the start of its loop.
FreshFrame(its) ==
    /\ items' = its
    /\ item_idx' = 0
    /\ total_dollar_volume' = Zero
    /\ trade_count' = 0
    /\ positions' = EmptyDict
    /\ realized_pnl' = Zero
    /\ winning_trades' = 0
    /\ losing_trades' = 0

\* main: the for loop takes the next user and calls enhance_user, which
\* calls fetch_user_trades_with_prices.
MainNextUser ==
    /\ pc = "main_loop"
    /\ i < Len(users)
    /\ pc' = "fetch_trades"
    /\ ret' = NoRet
    /\ FreshFrame(<<>>)
    /\ UNCHANGED <<mainvars, enhvars, liveframe>>
    /\ UNCHANGED othervars

\* main: the loop is over, the enhanced rows are written.
MainWrite ==
    /\ pc = "main_loop"
    /\ i = Len(users)
    /\ output' = enhanced_users
    /\ pc' = "done"
    /\ UNCHANGED <<users, i, enhanced_users, exc, frame, ret, enhvars, liveframe>>
    /\ UNCHANGED othervars

\* The request raises (network error, timeout, HTTP error status): the
\* except branch returns the zero dict and an empty position dict.
FetchTradesFail ==
    /\ pc = "fetch_trades"
    /\ ret' = TupleOf(ZeroMetrics, EmptyDict)
    /\ pc' = "unpack"
    /\ UNCHANGED <<mainvars, enhvars, frame, liveframe>>
    /\ UNCHANGED othervars

\* The request succeeds with no trades: `if not items: return {...}`.
FetchTradesEmpty ==
    /\ pc = "fetch_trades"
    /\ ret' = DictOf(ZeroMetrics)
    /\ pc' = "unpack"
    /\ UNCHANGED <<mainvars, enhvars, frame, liveframe>>
    /\ UNCHANGED othervars

\* The request succeeds with a non-empty trade list.
FetchTradesItems(feed) ==
    /\ pc = "fetch_trades"
    /\ \E its \in feed : FreshFrame(its)
    /\ pc' = "trade_loop"
    /\ UNCHANGED <<mainvars, enhvars, ret, liveframe>>
    /\ UNCHANGED othervars

\* One iteration of `for item in items`.
ProcessTrade ==
    /\ pc = "trade_loop"
    /\ item_idx < Len(items)
    /\ LET item == items[item_idx + 1]
           sz   == ToFloat(item.size)
           pr   == ToFloat(item.price)
           side == Upper(item.side)
           key  == <<item.market, item.outcome>>
           dollar_amount == DollarAmount(sz.val, pr.val)
       IN  IF ~sz.ok \/ ~pr.ok
           THEN \* float() raised: the function's except branch returns
                /\ ret' = TupleOf(ZeroMetrics, EmptyDict)
                /\ pc' = "unpack"
                /\ UNCHANGED frame
           ELSE /\ total_dollar_volume' = RAdd(total_dollar_volume, dollar_amount)
                /\ trade_count' = trade_count + 1
                /\ item_idx' = item_idx + 1
                /\ IF side = BUY
                   THEN /\ positions' = ApplyBuy(positions, key, sz.val, dollar_amount)
                        /\ UNCHANGED <<realized_pnl, winning_trades, losing_trades>>
                   ELSE IF side = SELL /\ Matched(positions, key)
                   THEN LET trade_pnl == TradePnl(positions[key], sz.val, dollar_amount)
                        IN  /\ realized_pnl' = RAdd(realized_pnl, trade_pnl)
                            /\ winning_trades' =
                                   IF IsWin(trade_pnl) THEN winning_trades + 1
                                   ELSE winning_trades
                            /\ losing_trades' =
                                   IF IsLoss(trade_pnl) THEN losing_trades + 1
                                   ELSE losing_trades
                            /\ positions' = ApplySell(positions, key, sz.val)
                   ELSE UNCHANGED <<positions, realized_pnl, winning_trades,
                                    losing_trades>>
                /\ UNCHANGED <<items, ret, pc>>
    /\ UNCHANGED <<mainvars, enhvars, liveframe>>
    /\ UNCHANGED othervars

\* The loop is over: the metrics dict is built and returned with the
\* position dict.
FinishTrades ==
    /\ pc = "trade_loop"
    /\ item_idx = Len(items)
    /\ ret' = TupleOf(Metrics(total_dollar_volume, trade_count, realized_pnl,
                              winning_trades, losing_trades),
                      positions)
    /\ pc' = "unpack"
    /\ UNCHANGED <<mainvars, enhvars, frame, liveframe>>
    /\ UNCHANGED othervars

\* enhance_user: `trade_metrics, open_positions = await fetch_...` with a
\* result that unpacks into two values.
UnpackOk ==
    /\ pc = "unpack"
    /\ Len(Iter(ret)) = 2
    /\ trade_metrics' = Iter(ret)[1]
    /\ open_positions' = Iter(ret)[2]
    /\ items' = <<>>
    /\ item_idx' = 0
    /\ pc' = "fetch_positions"
    /\ UNCHANGED <<mainvars, ret, position_metrics, liveframe, total_dollar_volume,
                   trade_count, positions, realized_pnl, winning_trades,
                   losing_trades>>
    /\ UNCHANGED othervars

\* The same statement with a result that does not unpack into two values:
\* ValueError, which neither enhance_user nor main handles.
UnpackRaise ==
    /\ pc = "unpack"
    /\ Len(Iter(ret)) # 2
    /\ exc' = "ValueError"
    /\ pc' = "crashed"
    /\ UNCHANGED <<users, i, enhanced_users, output, frame, ret, enhvars, liveframe>>
    /\ UNCHANGED othervars

\* fetch_user_positions_dollars: the request raises.
FetchPositionsFail ==
    /\ pc = "fetch_positions"
    /\ position_metrics' = ZeroPositionMetrics
    /\ pc' = "build_row"
    /\ UNCHANGED <<mainvars, frame, ret, trade_metrics, open_positions, liveframe>>
    /\ UNCHANGED othervars

\* fetch_user_positions_dollars: the request succeeds with a list.
FetchPositionsItems(feed) ==
    /\ pc = "fetch_positions"
    /\ \E live \in feed :
           LET acc == LiveFold([ok |-> TRUE, value |-> Zero, unrealized |-> Zero],
                               live, open_positions)
           IN  /\ live_items' = live
               /\ position_value_dollars' = acc.value
               /\ unrealized_pnl' = acc.unrealized
               /\ position_metrics' = PositionMetrics(live, open_positions)
    /\ pc' = "build_row"
    /\ UNCHANGED <<mainvars, frame, ret, trade_metrics, open_positions>>
    /\ UNCHANGED othervars

\* enhance_user builds and returns the row; main appends it.
EnhanceReturn ==
    /\ pc = "build_row"
    /\ enhanced_users' =
           Append(enhanced_users, EnhancedRow(users[i + 1], trade_metrics, position_metrics))
    /\ i' = i + 1
    /\ pc' = "main_loop"
    /\ ret' = NoRet
    /\ trade_metrics' = ZeroMetrics
    /\ open_positions' = EmptyDict
    /\ position_metrics' = ZeroPositionMetrics
    /\ FreshFrame(<<>>)
    /\ live_items' = <<>>
    /\ position_value_dollars' = Zero
    /\ unrealized_pnl' = Zero
    /\ UNCHANGED <<users, output, exc>>
    /\ UNCHANGED othervars

(* ----------------------- add_financial_metrics ------------------------ *)

\* Longest closed-position list the closed-positions endpoint answers with.
MaxClosed == 3

\* round(x, ndigits), scale = 10^ndigits: nearest multiple of 1/scale, ties
\* to the even one.
RoundTo(x, scale) ==
    LET num == scale * x[1]
        q   == num \div x[2]
        rem == num - q * x[2]
        k   == IF 2 * rem < x[2] THEN q
               ELSE IF 2 * rem > x[2] THEN q + 1
               ELSE IF q % 2 = 0 THEN q ELSE q + 1
    IN  Norm(k, scale)

ClosedRecord(pnl) == [realizedPnl |-> pnl]

ClosedRecords ==
    {ClosedRecord(Num(2)), ClosedRecord(Num(-1)), ClosedRecord(Num(0)),
     ClosedRecord(Null), ClosedRecord(BadStr)}

ClosedFeed == {<<>>} \cup ListsUpTo(ClosedRecords, MaxClosed)

FinTradeFeed ==
    {<<>>,
     <<Trade(BUY, <<"m1", "Yes">>, Num(10), Num(1))>>,
     <<Trade(BUY, <<"m1", "Yes">>, Num(10), Num(1)),
       Trade(SELL, <<"m1", "Yes">>, Num(5), Num(2))>>,
     <<Trade(BUY, <<"m1", "Yes">>, Num(10), Num(1)),
       Trade(BUY, <<"m1", "Yes">>, BadStr, Num(1))>>}

\* fetch_trades_with_usd: the loop adding price * size; ok is FALSE once
\* float() raised.
RECURSIVE CashFold(_, _)
CashFold(acc, its) ==
    IF its = <<>> THEN acc
    ELSE LET price == ToFloat(Head(its).price)
             size  == ToFloat(Head(its).size)
         IN  IF ~acc.ok \/ ~price.ok \/ ~size.ok
             THEN [ok |-> FALSE, total |-> acc.total]
             ELSE CashFold([ok |-> TRUE,
                            total |-> RAdd(acc.total, RMul(price.val, size.val))],
                           Tail(its))

\* The value fetch_trades_with_usd returns for a fetched list.
CashVolume(its) ==
    LET acc == CashFold([ok |-> TRUE, total |-> Zero], its)
    IN  IF acc.ok THEN acc.total ELSE Zero

\* Variant: only the records with a nonzero PnL are counted.
ClosedCount_NonZero(its) ==
    Cardinality({j \in 1..Len(its) : ToFloat(its[j].realizedPnl).val # Zero})

\* closed_count = len(items)
ClosedCount(its) == Len(its)

\* Variant: the rate is given in percent.
FinWinRate_Percent(winning, closed) ==
    IF closed > 0 THEN RMul(RDiv(R(winning), R(closed)), R(100)) ELSE Zero

\* win_rate = (winning_count / closed_count) if closed_count > 0 else 0.0
FinWinRate(winning, closed) == IF closed > 0 THEN RDiv(R(winning), R(closed)) ELSE Zero

\* The fields enrich_user_financials adds to the row.
EnrichedRow(row, cash, cr) ==
    [wallet |-> row.wallet,
     total_cash_volume |-> RoundTo(cash, 1000000),
     realized_pnl |-> RoundTo(cr[1], 1000000),
     closed_positions_count |-> cr[2],
     winning_positions_count |-> cr[3],
     win_rate |-> RoundTo(FinWinRate(cr[3], cr[2]), 10000)]

\* fetch_trades_with_usd: the request raises.
FinFetchTradesFail ==
    /\ fin_pc = "start"
    /\ total_cash_volume' = Zero
    /\ fin_pc' = "fetch_closed"
    /\ UNCHANGED <<user_row, closedframe, closed_ret, ledgervars, llmvars, marketvars>>

\* fetch_trades_with_usd: the request succeeds with a list.
FinFetchTrades(feed) ==
    /\ fin_pc = "start"
    /\ \E its \in feed : total_cash_volume' = CashVolume(its)
    /\ fin_pc' = "fetch_closed"
    /\ UNCHANGED <<user_row, closedframe, closed_ret, ledgervars, llmvars, marketvars>>

\* fetch_closed_positions: the request raises.
FinFetchClosedFail ==
    /\ fin_pc = "fetch_closed"
    /\ closed_ret' = <<Zero, 0, 0>>
    /\ fin_pc' = "enrich"
    /\ UNCHANGED <<user_row, total_cash_volume, closedframe, ledgervars, llmvars, marketvars>>

\* fetch_closed_positions: the request succeeds with a list.
FinFetchClosedItems(feed) ==
    /\ fin_pc = "fetch_closed"
    /\ \E its \in feed :
           /\ closed_items' = its
           /\ closed_count' = ClosedCount(its)
    /\ closed_idx' = 0
    /\ closed_realized_pnl' = Zero
    /\ winning_count' = 0
    /\ fin_pc' = "closed_loop"
    /\ UNCHANGED <<user_row, total_cash_volume, closed_ret, ledgervars, llmvars, marketvars>>

\* One iteration of `for item in items` of fetch_closed_positions.
FinClosedStep ==
    /\ fin_pc = "closed_loop"
    /\ closed_idx < Len(closed_items)
    /\ LET pnl == ToFloat(closed_items[closed_idx + 1].realizedPnl)
       IN  IF ~pnl.ok
           THEN \* float() raised: the except branch returns 0.0, 0, 0
                /\ closed_ret' = <<Zero, 0, 0>>
                /\ fin_pc' = "enrich"
                /\ UNCHANGED closedframe
           ELSE /\ closed_realized_pnl' = RAdd(closed_realized_pnl, pnl.val)
                /\ winning_count' = IF RPos(pnl.val) THEN winning_count + 1
                                    ELSE winning_count
                /\ closed_idx' = closed_idx + 1
                /\ UNCHANGED <<closed_items, closed_count, closed_ret, fin_pc>>
    /\ UNCHANGED <<user_row, total_cash_volume, ledgervars, llmvars, marketvars>>

\* return realized_pnl, closed_count, winning_count
FinClosedReturn ==
    /\ fin_pc = "closed_loop"
    /\ closed_idx = Len(closed_items)
    /\ closed_ret' = <<closed_realized_pnl, closed_count, winning_count>>
    /\ fin_pc' = "enrich"
    /\ UNCHANGED <<user_row, total_cash_volume, closedframe, ledgervars, llmvars, marketvars>>

\* enrich_user_financials: the win rate and the new fields of the row.
FinEnrich ==
    /\ fin_pc = "enrich"
    /\ user_row' = EnrichedRow(user_row, total_cash_volume, closed_ret)
    /\ fin_pc' = "done"
    /\ UNCHANGED <<total_cash_volume, closedframe, closed_ret, ledgervars, llmvars, marketvars>>

(* ---------------------- analyze_user_portfolios ----------------------- *)

\* Most users in the CSV analyze_users reads.
MaxAnalyzed == 2

\* os.getenv of an API key: unset (None), set to the empty string, or set.
KeyValues == {"none", "", "sk-1"}

\* `not OPENAI_API_KEY`
KeyUnset(k) == k \in {"none", ""}

\* LLM_PROVIDER after .lower()
Providers == {"openai", "xai", "other"}

\* A titles column: the segments between "|"; <<>> is the empty string.
TitleStrings == {<<>>, <<" ">>, <<"AAPL EPS beat">>}

\* t.strip()
Strip(t) == IF t \in {"", " "} THEN "" ELSE t

\* [t.strip() for t in titles_str.split("|") if t.strip()]
RECURSIVE SplitTitles(_)
SplitTitles(str) ==
    IF str = <<>> THEN <<>>
    ELSE IF Strip(Head(str)) = "" THEN SplitTitles(Tail(str))
         ELSE <<Strip(Head(str))>> \o SplitTitles(Tail(str))

\* historical titles if that column is non-empty, else the active ones.
TitlesOf(row) ==
    IF row.historical_market_titles # <<>>
    THEN SplitTitles(row.historical_market_titles)
    ELSE SplitTitles(row.active_market_titles)

AnalyzedRows(n) ==
    {rows \in [1..n -> [wallet : {"0xaaa1"},
                        historical_market_titles : TitleStrings,
                        active_market_titles : TitleStrings]] :
        \A j \in 1..n : rows[j].wallet = "0xaaa1"}

AnalyzedFeed == UNION {AnalyzedRows(n) : n \in 1..MaxAnalyzed}

\* [0.0, 0.5, 0.5, 0.0, 50.0]
NeutralScores == <<Zero, Norm(1, 2), Norm(1, 2), Zero, R(50)>>

\* enriched_user = {**user} with the five scores added.
ScoredRow(row, sc) ==
    [wallet |-> row.wallet,
     conflict_penalty |-> sc[1], randomness_penalty |-> sc[2],
     focus_boost |-> sc[3], variant_chain_density |-> sc[4],
     insider_likelihood |-> sc[5]]

\* The provider is known and its API key is set.
ProviderConfigured ==
    \/ LLM_PROVIDER = "openai" /\ ~KeyUnset(OPENAI_API_KEY)
    \/ LLM_PROVIDER = "xai" /\ ~KeyUnset(XAI_API_KEY)

LLMIdle ==
    /\ LLM_PROVIDER = "openai"
    /\ OPENAI_API_KEY = "none"
    /\ XAI_API_KEY = "none"
    /\ llm_users = <<>>
    /\ llm_i = 0
    /\ enriched_users = <<>>
    /\ llm_output = <<>>
    /\ llm_pc = "idle"
    /\ llm_exc = ""

\* analyze_users after reading the CSV, under every configuration.
LLMStart ==
    /\ LLM_PROVIDER \in Providers
    /\ OPENAI_API_KEY \in KeyValues
    /\ XAI_API_KEY \in KeyValues
    /\ llm_users \in AnalyzedFeed
    /\ llm_i = 0
    /\ enriched_users = <<>>
    /\ llm_output = <<>>
    /\ llm_pc = "loop"
    /\ llm_exc = ""

\* analyze_users: a user without titles gets the neutral scores.
AnalyzeNoTitles ==
    /\ llm_pc = "loop"
    /\ llm_i < Len(llm_users)
    /\ TitlesOf(llm_users[llm_i + 1]) = <<>>
    /\ enriched_users' = Append(enriched_users, ScoredRow(llm_users[llm_i + 1], NeutralScores))
    /\ llm_i' = llm_i + 1
    /\ UNCHANGED <<LLM_PROVIDER, OPENAI_API_KEY, XAI_API_KEY, llm_users, llm_output,
                   llm_pc, llm_exc>>
    /\ UNCHANGED <<ledgervars, finvars, marketvars>>

\* analyze_users: a user with titles: the prompt is built and call_llm is
\* called.
AnalyzeCallLLM ==
    /\ llm_pc = "loop"
    /\ llm_i < Len(llm_users)
    /\ TitlesOf(llm_users[llm_i + 1]) # <<>>
    /\ llm_pc' = "call_llm"
    /\ UNCHANGED <<LLM_PROVIDER, OPENAI_API_KEY, XAI_API_KEY, llm_users, llm_i,
                   enriched_users, llm_output, llm_exc>>
    /\ UNCHANGED <<ledgervars, finvars, marketvars>>

\* call_llm: the provider is unknown or its key is not set: ValueError,
\* which analyze_users does not catch.
CallLLMNotConfigured ==
    /\ llm_pc = "call_llm"
    /\ ~ProviderConfigured
    /\ llm_exc' = "ValueError"
    /\ llm_pc' = "crashed"
    /\ UNCHANGED <<LLM_PROVIDER, OPENAI_API_KEY, XAI_API_KEY, llm_users, llm_i,
                   enriched_users, llm_output>>
    /\ UNCHANGED <<ledgervars, finvars, marketvars>>

\* call_llm: `payload = await client.chat.completions.create(...)` reads the
\* local name client, which is bound only by the `async with ... as client`
\* below it: UnboundLocalError, raised outside the try of the retry loop,
\* which is therefore never entered.
CallLLMPayload ==
    /\ llm_pc = "call_llm"
    /\ ProviderConfigured
    /\ llm_exc' = "UnboundLocalError"
    /\ llm_pc' = "crashed"
    /\ UNCHANGED <<LLM_PROVIDER, OPENAI_API_KEY, XAI_API_KEY, llm_users, llm_i,
                   enriched_users, llm_output>>
    /\ UNCHANGED <<ledgervars, finvars, marketvars>>

\* analyze_users: the loop is over, the rows are written.
AnalyzeWrite ==
    /\ llm_pc = "loop"
    /\ llm_i = Len(llm_users)
    /\ llm_output' = enriched_users
    /\ llm_pc' = "done"
    /\ UNCHANGED <<LLM_PROVIDER, OPENAI_API_KEY, XAI_API_KEY, llm_users, llm_i,
                   enriched_users, llm_exc>>
    /\ UNCHANGED <<ledgervars, finvars, marketvars>>

(* ---------------------- fetch_earnings_week_users --------------------- *)

\* Largest limit fetch_all_markets is called with.
MaxLimit == 250

per_page == 100

\* fetch_size = min(per_page, limit - len(all_markets))
FetchSize == IF per_page < limit - all_markets THEN per_page ELSE limit - all_markets

\* Numbers of items a page can hold: none, fewer than asked for, as many,
\* or more.
PageSizes(fetch_size) == {0, fetch_size - 1, fetch_size, fetch_size + 1, 2 * fetch_size}

MarketsIdle ==
    /\ limit = 0
    /\ all_markets = 0
    /\ offset = 0
    /\ markets_pc = "idle"
    /\ markets_ret = -1

MarketsStart ==
    /\ limit \in 0..MaxLimit
    /\ all_markets = 0
    /\ offset = 0
    /\ markets_pc = "loop"
    /\ markets_ret = -1

\* One iteration of the while loop whose request succeeds.
MarketsPage ==
    /\ markets_pc = "loop"
    /\ all_markets < limit
    /\ \E n \in PageSizes(FetchSize) :
           IF n = 0
           THEN \* if not items: break
                /\ markets_pc' = "return"
                /\ UNCHANGED <<all_markets, offset>>
           ELSE /\ all_markets' = all_markets + n
                /\ IF n < FetchSize
                   THEN markets_pc' = "return" /\ UNCHANGED offset
                   ELSE offset' = offset + FetchSize /\ UNCHANGED markets_pc
    /\ UNCHANGED <<limit, markets_ret>>
    /\ UNCHANGED <<ledgervars, finvars, llmvars>>

\* One iteration whose request raises: the except branch breaks.
MarketsError ==
    /\ markets_pc = "loop"
    /\ all_markets < limit
    /\ markets_pc' = "return"
    /\ UNCHANGED <<limit, all_markets, offset, markets_ret>>
    /\ UNCHANGED <<ledgervars, finvars, llmvars>>

\* The loop condition len(all_markets) < limit is false.
MarketsLoopExit ==
    /\ markets_pc = "loop"
    /\ all_markets >= limit
    /\ markets_pc' = "return"
    /\ UNCHANGED <<limit, all_markets, offset, markets_ret>>
    /\ UNCHANGED <<ledgervars, finvars, llmvars>>

\* return all_markets
MarketsReturn ==
    /\ markets_pc = "return"
    /\ markets_ret' = all_markets
    /\ markets_pc' = "done"
    /\ UNCHANGED <<limit, all_markets, offset>>
    /\ UNCHANGED <<ledgervars, finvars, llmvars>>

(* --------------------------- specifications --------------------------- *)

\* One wallet, every trade list over the well-formed trades.
Init == InitWith(UserRows(1)) /\ LLMIdle /\ MarketsIdle

Next ==
    \/ MainNextUser
    \/ MainWrite
    \/ FetchTradesFail
    \/ FetchTradesEmpty
    \/ FetchTradesItems(LedgerFeed)
    \/ ProcessTrade
    \/ FinishTrades
    \/ UnpackOk
    \/ UnpackRaise
    \/ FetchPositionsFail
    \/ FetchPositionsItems(BatchLiveFeed)
    \/ EnhanceReturn

Spec == Init /\ [][Next]_vars

\* The batch over several wallets, with malformed trade records.
InitBatch == InitWith(UserRows(NumWallets)) /\ LLMIdle /\ MarketsIdle

NextBatch ==
    \/ MainNextUser
    \/ MainWrite
    \/ FetchTradesFail
    \/ FetchTradesEmpty
    \/ FetchTradesItems(BatchFeed)
    \/ ProcessTrade
    \/ FinishTrades
    \/ UnpackOk
    \/ UnpackRaise
    \/ FetchPositionsFail
    \/ FetchPositionsItems(BatchLiveFeed)
    \/ EnhanceReturn

SpecBatch == InitBatch /\ [][NextBatch]_vars

\* One wallet whose trades spell the side in several ways.
NextSides ==
    \/ MainNextUser
    \/ MainWrite
    \/ FetchTradesFail
    \/ FetchTradesEmpty
    \/ FetchTradesItems(SideFeed)
    \/ ProcessTrade
    \/ FinishTrades
    \/ UnpackOk
    \/ UnpackRaise
    \/ FetchPositionsFail
    \/ FetchPositionsItems(BatchLiveFeed)
    \/ EnhanceReturn

SpecSides == Init /\ [][NextSides]_vars

\* One wallet with up to three SELLs against one BUY.
NextRate ==
    \/ MainNextUser
    \/ MainWrite
    \/ FetchTradesFail
    \/ FetchTradesEmpty
    \/ FetchTradesItems(RateFeed)
    \/ ProcessTrade
    \/ FinishTrades
    \/ UnpackOk
    \/ UnpackRaise
    \/ FetchPositionsFail
    \/ FetchPositionsItems(BatchLiveFeed)
    \/ EnhanceReturn

SpecRate == Init /\ [][NextRate]_vars

\* One wallet with open positions and every live-position list.
NextLive ==
    \/ MainNextUser
    \/ MainWrite
    \/ FetchTradesFail
    \/ FetchTradesEmpty
    \/ FetchTradesItems(PositionFeed)
    \/ ProcessTrade
    \/ FinishTrades
    \/ UnpackOk
    \/ UnpackRaise
    \/ FetchPositionsFail
    \/ FetchPositionsItems(LiveFeed)
    \/ EnhanceReturn

SpecLive == Init /\ [][NextLive]_vars

\* One wallet trading the amounts of the end-to-end scenario.
NextScenario ==
    \/ MainNextUser
    \/ MainWrite
    \/ FetchTradesFail
    \/ FetchTradesEmpty
    \/ FetchTradesItems(ScenarioFeed)
    \/ ProcessTrade
    \/ FinishTrades
    \/ UnpackOk
    \/ UnpackRaise
    \/ FetchPositionsFail
    \/ FetchPositionsItems(BatchLiveFeed)
    \/ EnhanceReturn

SpecScenario == Init /\ [][NextScenario]_vars

\* Several wallets in turn, each with its own trades on shared keys.
NextIsolation ==
    \/ MainNextUser
    \/ MainWrite
    \/ FetchTradesFail
    \/ FetchTradesEmpty
    \/ FetchTradesItems(IsolationFeed)
    \/ ProcessTrade
    \/ FinishTrades
    \/ UnpackOk
    \/ UnpackRaise
    \/ FetchPositionsFail
    \/ FetchPositionsItems(BatchLiveFeed)
    \/ EnhanceReturn

SpecIsolation == InitBatch /\ [][NextIsolation]_vars

\* enrich_user_financials of add_financial_metrics for one user row.
NextFin ==
    \/ FinFetchTradesFail
    \/ FinFetchTrades(FinTradeFeed)
    \/ FinFetchClosedFail
    \/ FinFetchClosedItems(ClosedFeed)
    \/ FinClosedStep
    \/ FinClosedReturn
    \/ FinEnrich

SpecFin == Init /\ [][NextFin]_vars

\* analyze_users over a CSV of users, for every provider configuration.
InitLLM == InitWith(UserRows(1)) /\ LLMStart /\ MarketsIdle

NextLLM ==
    \/ AnalyzeNoTitles
    \/ AnalyzeCallLLM
    \/ CallLLMNotConfigured
    \/ CallLLMPayload
    \/ AnalyzeWrite

SpecLLM == InitLLM /\ [][NextLLM]_vars

\* fetch_all_markets for every limit and every server behaviour.
InitMarkets == InitWith(UserRows(1)) /\ LLMIdle /\ MarketsStart

NextMarkets ==
    \/ MarketsPage
    \/ MarketsError
    \/ MarketsLoopExit
    \/ MarketsReturn

SpecMarkets == InitMarkets /\ [][NextMarkets]_vars

(* ------------------------- claim vocabulary --------------------------- *)

K1 == <<"m1", "Yes">>

K2 == <<"m2", "No">>

KeyOf(item) == <<item.market, item.outcome>>

\* The trade the loop processes in its next iteration.
CurItem == items[item_idx + 1]

\* A step of the loop that processed a BUY / a SELL without raising.
BuyStep ==
    /\ pc = "trade_loop" /\ item_idx < Len(items) /\ item_idx' = item_idx + 1
    /\ Upper(CurItem.side) = BUY

SellStep ==
    /\ pc = "trade_loop" /\ item_idx < Len(items) /\ item_idx' = item_idx + 1
    /\ Upper(CurItem.side) = SELL

\* The key of the current trade holds an open position with shares > 0.
HoldsShares == KeyOf(CurItem) \in DOMAIN positions /\ positions[KeyOf(CurItem)].shares[1] > 0

\* A field that is missing, null or a non-numeric string.
Malformed(raw) == raw.tag \in {"missing", "null", "badstr"}

HasMalformed(its) ==
    \E j \in 1..Len(its) : Malformed(its[j].size) \/ Malformed(its[j].price)

\* The value the specification gives a field: 0 when it is malformed.
FieldOrZero(raw) == IF Malformed(raw) THEN Zero ELSE raw.val

RECURSIVE VolumeOrZero(_)
VolumeOrZero(its) ==
    IF its = <<>> THEN Zero
    ELSE RAdd(RMul(FieldOrZero(Head(its).size), FieldOrZero(Head(its).price)),
              VolumeOrZero(Tail(its)))

\* The first n trades are all BUYs.
AllBuys(n) == \A j \in 1..n : Upper(items[j].side) = BUY

\* Sum of size, and of size * price, over the BUYs on key k among the first n trades.
RECURSIVE SumBuySize(_, _)
SumBuySize(n, k) ==
    IF n = 0 THEN Zero
    ELSE IF KeyOf(items[n]) = k /\ Upper(items[n].side) = BUY
         THEN RAdd(SumBuySize(n - 1, k), items[n].size.val)
         ELSE SumBuySize(n - 1, k)

RECURSIVE SumBuyCost(_, _)
SumBuyCost(n, k) ==
    IF n = 0 THEN Zero
    ELSE IF KeyOf(items[n]) = k /\ Upper(items[n].side) = BUY
         THEN RAdd(SumBuyCost(n - 1, k), RMul(items[n].size.val, items[n].price.val))
         ELSE SumBuyCost(n - 1, k)

(* -------------------------------- claims ------------------------------ *)

\* C1: a wallet whose trade fetch succeeds with an empty list raises no
\* exception in enhance_user (and gets an all-zero profile).  The empty
\* branch is the only one that returns a bare dict.
C1_EmptyTradesNoRaise == ret.kind = "dict" => (pc # "crashed" /\ exc = "")

\* C2: no exception propagates out of the batch loop of main, and when main
\* is done every wallet has a row in the written output.
C2_BatchNeverAborts ==
    /\ exc = ""
    /\ pc = "done" => Len(output) = Len(users)

\* C3: a trade list holding a record with a malformed size or price
\* (missing, null, non-numeric string) is processed with that field as 0:
\* every trade is counted in total_trades and the volume is the sum over
\* all trades with malformed fields taken as 0.
C3_MalformedFieldAsZero ==
    (pc = "unpack" /\ items # <<>> /\ HasMalformed(items))
        => /\ ret.kind = "tuple"
           /\ ret.elems[1].total_trades = Len(items)
           /\ ret.elems[1].total_dollar_volume = Round2(VolumeOrZero(items))

\* C4: every entry of the position mapping has shares > 0, after every
\* processed trade and in the mapping handed to enhance_user.
C4_EntriesHaveShares ==
    /\ \A k \in DOMAIN positions : positions[k].shares[1] > 0
    /\ \A k \in DOMAIN open_positions : open_positions[k].shares[1] > 0

\* C5: every stored position has shares >= 0 and cost_basis >= 0 at every
\* point of processing, also after a SELL larger than the shares held.
C5_LedgerNonNegative ==
    /\ \A k \in DOMAIN positions :
           positions[k].shares[1] >= 0 /\ positions[k].cost_basis[1] >= 0
    /\ \A k \in DOMAIN open_positions :
           open_positions[k].shares[1] >= 0 /\ open_positions[k].cost_basis[1] >= 0

C5_OversellProcessed ==
    /\ pc = "trade_loop" /\ item_idx = 2
    /\ items[1] = Trade(BUY, K1, Num(5), Num(2))
    /\ items[2] = Trade(SELL, K1, Num(10), Num(1))
    /\ K1 \notin DOMAIN positions

\* C6: after any prefix made only of BUYs, realized_pnl and the win and
\* loss counters are 0 and each key that was bought holds the sum of the
\* sizes as shares and the sum of size * price as cost_basis; the returned
\* metrics and mapping say the same.
C6_AllBuyTotals ==
    /\ (pc = "trade_loop" /\ AllBuys(item_idx)) =>
           /\ realized_pnl = Zero /\ winning_trades = 0 /\ losing_trades = 0
           /\ \A k \in Keys :
                  IF \E j \in 1..item_idx : KeyOf(items[j]) = k
                  THEN /\ k \in DOMAIN positions
                       /\ positions[k].shares = SumBuySize(item_idx, k)
                       /\ positions[k].cost_basis = SumBuyCost(item_idx, k)
                  ELSE k \notin DOMAIN positions
    /\ (pc = "unpack" /\ items # <<>> /\ item_idx = Len(items) /\ AllBuys(Len(items))) =>
           /\ ret.kind = "tuple"
           /\ ret.elems[1].realized_pnl = Zero
           /\ ret.elems[1].winning_trades = 0 /\ ret.elems[1].losing_trades = 0
           /\ \A k \in DOMAIN ret.elems[2] :
                  /\ ret.elems[2][k].shares = SumBuySize(Len(items), k)
                  /\ ret.elems[2][k].cost_basis = SumBuyCost(Len(items), k)

\* BUY 10 @ 1.00 then BUY 10 @ 2.00: shares 20, cost_basis 30, avg_cost 1.50.
C6_TwoBuysAveraged ==
    /\ pc = "trade_loop" /\ item_idx = 2
    /\ items[1] = Trade(BUY, K1, Num(10), Num(1))
    /\ items[2] = Trade(BUY, K1, Num(10), Num(2))
    /\ positions[K1] = [shares |-> R(20), cost_basis |-> R(30)]
    /\ AvgCost(positions[K1]) = <<3, 2>>
    /\ realized_pnl = Zero

\* C7: a SELL on a key holding shares > 0 adds exactly
\* size * price - (cost_basis / shares) * size to realized_pnl, with the
\* position's cost_basis and shares as they were before the sell.
C7_SellRealizesPnl ==
    [][(SellStep /\ HoldsShares) =>
          LET p  == positions[KeyOf(CurItem)]
              sz == CurItem.size.val
              pr == CurItem.price.val
          IN  realized_pnl' =
                  RAdd(realized_pnl,
                       RSub(RMul(sz, pr), RMul(RDiv(p.cost_basis, p.shares), sz)))]_vars

\* BUY 10 @ 1, then SELL 5 @ 3 of them: pnl = 15 - 5 = 10.
C7_MatchedSellProcessed ==
    /\ pc = "trade_loop" /\ item_idx = 2
    /\ items[1] = Trade(BUY, K1, Num(10), Num(1))
    /\ items[2] = Trade(SELL, K1, Num(5), Num(3))
    /\ realized_pnl = R(10)

\* C8: a SELL that leaves shares > 0 leaves the average cost unchanged:
\* the new cost_basis is the pre-sell avg_cost times the remaining shares.
C8_PartialSellKeepsAvgCost ==
    [][(SellStep /\ HoldsShares
          /\ RPos(RSub(positions[KeyOf(CurItem)].shares, CurItem.size.val))) =>
          LET k    == KeyOf(CurItem)
              avg  == RDiv(positions[k].cost_basis, positions[k].shares)
              left == RSub(positions[k].shares, CurItem.size.val)
          IN  /\ k \in DOMAIN positions'
              /\ positions'[k].shares = left
              /\ positions'[k].cost_basis = RMul(avg, left)
              /\ RDiv(positions'[k].cost_basis, positions'[k].shares) = avg]_vars

\* From shares 20 / cost_basis 30, SELL 5 @ 3.00: pnl 7.50, shares 15,
\* cost_basis 22.50.
C8_WorkedExample ==
    /\ pc = "trade_loop" /\ item_idx = 3
    /\ items[1] = Trade(BUY, K1, Num(10), Num(1))
    /\ items[2] = Trade(BUY, K1, Num(10), Num(2))
    /\ items[3] = Trade(SELL, K1, Num(5), Num(3))
    /\ realized_pnl = <<15, 2>>
    /\ positions[K1] = [shares |-> R(15), cost_basis |-> <<45, 2>>]

\* C9: a SELL whose size equals the shares held removes the key's entry,
\* and a BUY on a key without an entry creates a position holding that
\* BUY's size and size * price alone.
C9_CloseThenFreshBuy ==
    [][/\ (SellStep /\ HoldsShares
             /\ CurItem.size.val = positions[KeyOf(CurItem)].shares)
          => KeyOf(CurItem) \notin DOMAIN positions'
       /\ (BuyStep /\ KeyOf(CurItem) \notin DOMAIN positions)
          => /\ KeyOf(CurItem) \in DOMAIN positions'
             /\ positions'[KeyOf(CurItem)] =
                    [shares |-> CurItem.size.val,
                     cost_basis |-> RMul(CurItem.size.val, CurItem.price.val)]]_vars

\* BUY 10 @ 1, SELL 10 @ 2, BUY 5 @ 3: the new position is 5 shares, cost 15.
C9_ReopenedAfterClose ==
    /\ pc = "trade_loop" /\ item_idx = 3
    /\ items[1] = Trade(BUY, K1, Num(10), Num(1))
    /\ items[2] = Trade(SELL, K1, Num(10), Num(2))
    /\ items[3] = Trade(BUY, K1, Num(5), Num(3))
    /\ positions[K1] = [shares |-> R(5), cost_basis |-> R(15)]

\* C10: a SELL on a key with no open position leaves realized_pnl, the win
\* and loss counters and the whole mapping unchanged, adds size * price to
\* total_dollar_volume and 1 to total_trades.
C10_UnmatchedSellFrame ==
    [][(SellStep /\ ~HoldsShares) =>
          /\ UNCHANGED <<realized_pnl, winning_trades, losing_trades, positions>>
          /\ total_dollar_volume' =
                 RAdd(total_dollar_volume, RMul(CurItem.size.val, CurItem.price.val))
          /\ trade_count' = trade_count + 1]_vars

\* BUY 10 @ 1 on one key, then SELL 5 @ 3 on a key never bought.
C10_UnmatchedSellProcessed ==
    /\ pc = "trade_loop" /\ item_idx = 2
    /\ items[1] = Trade(BUY, K2, Num(10), Num(1))
    /\ items[2] = Trade(SELL, K1, Num(5), Num(3))
    /\ total_dollar_volume = R(25) /\ trade_count = 2
    /\ realized_pnl = Zero
    /\ DOMAIN positions = {K2}

(* ----------------------- claims C11 .. C20 ----------------------------- *)

\* A side that reads buy / sell in any letter case.
IsBuyAnyCase(s) ==
    Len(s) = 3 /\ s[1] \in {"b", "B"} /\ s[2] \in {"u", "U"} /\ s[3] \in {"y", "Y"}

IsSellAnyCase(s) ==
    /\ Len(s) = 4 /\ s[1] \in {"s", "S"} /\ s[2] \in {"e", "E"}
    /\ s[3] \in {"l", "L"} /\ s[4] \in {"l", "L"}

\* A step of the loop that processed a trade without raising.
LoopStep == pc = "trade_loop" /\ item_idx < Len(items) /\ item_idx' = item_idx + 1

\* size * price of the current trade, and the PnL a SELL of it realizes
\* against the position held before the step.
CurDollars == RMul(CurItem.size.val, CurItem.price.val)

CurPnl ==
    LET p == positions[KeyOf(CurItem)]
    IN  RSub(CurDollars, RMul(RDiv(p.cost_basis, p.shares), CurItem.size.val))

\* C11: a trade whose side is neither buy nor sell in any letter case adds
\* size * price to the volume and 1 to the trade count and leaves the
\* mapping, realized_pnl and the win and loss counters unchanged; buy and
\* sell in any letter case act as BUY and SELL.
C11_SideHandling ==
    [][LoopStep =>
          /\ total_dollar_volume' = RAdd(total_dollar_volume, CurDollars)
          /\ trade_count' = trade_count + 1
          /\ (~IsBuyAnyCase(CurItem.side) /\ ~IsSellAnyCase(CurItem.side))
                 => UNCHANGED <<positions, realized_pnl, winning_trades, losing_trades>>
          /\ IsBuyAnyCase(CurItem.side)
                 => /\ KeyOf(CurItem) \in DOMAIN positions'
                    /\ positions'[KeyOf(CurItem)].shares =
                           RAdd(IF KeyOf(CurItem) \in DOMAIN positions
                                THEN positions[KeyOf(CurItem)].shares ELSE Zero,
                                CurItem.size.val)
          /\ (IsSellAnyCase(CurItem.side) /\ HoldsShares)
                 => realized_pnl' = RAdd(realized_pnl, CurPnl)]_vars

\* buy 10 @ 1, Hold 5 @ 2, sell 5 @ 2, all but Hold in lower case.
C11_MixedCaseProcessed ==
    /\ pc = "trade_loop" /\ item_idx = 3
    /\ items[1] = Trade(<<"b", "u", "y">>, K1, Num(10), Num(1))
    /\ items[2] = Trade(<<"H", "o", "l", "d">>, K1, Num(5), Num(2))
    /\ items[3] = Trade(<<"s", "e", "l", "l">>, K1, Num(5), Num(2))
    /\ total_dollar_volume = R(30) /\ trade_count = 3
    /\ positions[K1] = [shares |-> R(5), cost_basis |-> R(5)]
    /\ realized_pnl = R(5)

\* C12: a matched SELL with pnl > 0 adds 1 to winning_trades only, with
\* pnl < 0 adds 1 to losing_trades only, with pnl = 0 changes neither.
C12_ClassifiedBySign ==
    [][(SellStep /\ HoldsShares) =>
          /\ CurPnl[1] > 0 =>
                 winning_trades' = winning_trades + 1 /\ losing_trades' = losing_trades
          /\ CurPnl[1] < 0 =>
                 losing_trades' = losing_trades + 1 /\ winning_trades' = winning_trades
          /\ CurPnl[1] = 0 =>
                 winning_trades' = winning_trades /\ losing_trades' = losing_trades]_vars

\* BUY 10 @ 2, a break-even SELL 5 @ 2, a winning SELL 5 @ 3.
C12_BreakEvenThenWin ==
    /\ pc = "trade_loop" /\ item_idx = 3
    /\ items[1] = Trade(BUY, K1, Num(10), Num(2))
    /\ items[2] = Trade(SELL, K1, Num(5), Num(2))
    /\ items[3] = Trade(SELL, K1, Num(5), Num(3))
    /\ winning_trades = 1 /\ losing_trades = 0 /\ realized_pnl = R(5)

\* winning / (winning + losing) * 100 of a row, unrounded; 0 when there is
\* no win and no loss.
RowRate(row) ==
    IF row.winning_trades + row.losing_trades > 0
    THEN RDiv(R(100 * row.winning_trades), R(row.winning_trades + row.losing_trades))
    ELSE Zero

\* C13 as stated: win_rate_percent of every row equals
\* winning_trades / (winning_trades + losing_trades) * 100, and 0 when the
\* denominator is 0.
C13_WinRateExact ==
    \A j \in 1..Len(enhanced_users) :
        enhanced_users[j].win_rate_percent = RowRate(enhanced_users[j])

\* C13 amended: win_rate_percent of every row equals that quotient rounded
\* to 2 decimals, 0 when the denominator is 0, and 50 for one win and one
\* loss.
C13_WinRateRounded ==
    \A j \in 1..Len(enhanced_users) :
        LET row == enhanced_users[j]
        IN  /\ row.win_rate_percent = Round2(RowRate(row))
            /\ (row.winning_trades + row.losing_trades = 0) => row.win_rate_percent = Zero
            /\ (row.winning_trades = 1 /\ row.losing_trades = 1)
                   => row.win_rate_percent = R(50)

\* One win and two losses: 33.33.
C13_OneWinTwoLosses ==
    /\ Len(enhanced_users) = 1
    /\ enhanced_users[1].winning_trades = 1
    /\ enhanced_users[1].losing_trades = 2
    /\ enhanced_users[1].win_rate_percent = <<3333, 100>>

\* The closed-position records whose realized PnL is not 0.
NonZeroPnl(its) ==
    {j \in 1..Len(its) : FieldOrZero(its[j].realizedPnl) # Zero}

\* Every record of the list has a realized PnL float() accepts.
ClosedParsed(its) == \A j \in 1..Len(its) : its[j].realizedPnl.tag # "badstr"

LedgerReturned ==
    pc = "unpack" /\ ret.kind = "tuple" /\ items # <<>> /\ item_idx = Len(items)

\* C15 as stated: total_trades is the number of records processed and
\* avg_trade_dollars is the total dollar volume divided by it, 0 for no
\* trades.
C15_AvgExact ==
    /\ LedgerReturned =>
           /\ ret.elems[1].total_trades = Len(items)
           /\ ret.elems[1].avg_trade_dollars =
                  RDiv(total_dollar_volume, R(Len(items)))
    /\ (pc = "unpack" /\ ret.elems[1].total_trades = 0)
           => ret.elems[1].avg_trade_dollars = Zero

\* C15 amended: avg_trade_dollars is that quotient rounded to 2 decimals.
C15_AvgRounded ==
    /\ LedgerReturned =>
           /\ ret.elems[1].total_trades = Len(items)
           /\ ret.elems[1].avg_trade_dollars =
                  Round2(RDiv(total_dollar_volume, R(Len(items))))
    /\ (pc = "unpack" /\ ret.elems[1].total_trades = 0)
           => ret.elems[1].avg_trade_dollars = Zero

\* An unrecognized side, an unmatched sell and a buy: 20 dollars over 3.
C15_ThreeKindsCounted ==
    /\ LedgerReturned /\ Len(items) = 3
    /\ items[1] = Trade(<<"H", "o", "l", "d">>, K1, Num(5), Num(1))
    /\ items[2] = Trade(<<"s", "e", "l", "l">>, K1, Num(5), Num(1))
    /\ items[3] = Trade(<<"b", "u", "y">>, K1, Num(10), Num(1))
    /\ ret.elems[1].total_trades = 3
    /\ ret.elems[1].avg_trade_dollars = <<667, 100>>

\* C16: a SELL matching a position with shares > 0 adds exactly its pnl to
\* the running realized_pnl; every other trade leaves realized_pnl as it
\* was.
C16_OneContributionPerMatchedSell ==
    [][LoopStep =>
          realized_pnl' = IF Upper(CurItem.side) = SELL /\ HoldsShares
                          THEN RAdd(realized_pnl, CurPnl)
                          ELSE realized_pnl]_vars

\* BUY 10 @ 1, SELL 5 @ 2 (pnl 5), SELL 5 @ 3 (pnl 10).
C16_TwoSellsSummed ==
    /\ pc = "trade_loop" /\ item_idx = 3
    /\ items[1] = Trade(BUY, K1, Num(10), Num(1))
    /\ items[2] = Trade(SELL, K1, Num(5), Num(2))
    /\ items[3] = Trade(SELL, K1, Num(5), Num(3))
    /\ realized_pnl = R(15)

\* C17: in every profile the reported total_pnl is the reported
\* realized_pnl plus the reported unrealized_pnl, failed fetches included.
C17_TotalIsSumOfReported ==
    \A j \in 1..Len(enhanced_users) :
        enhanced_users[j].total_pnl =
            RAdd(enhanced_users[j].realized_pnl, enhanced_users[j].unrealized_pnl)

\* A gain of 1.67 and an open loss of 1.33 reported with a total of 0.34.
C17_GainAndOpenLoss ==
    /\ Len(enhanced_users) = 1
    /\ enhanced_users[1].realized_pnl = <<167, 100>>
    /\ enhanced_users[1].unrealized_pnl = <<-133, 100>>
    /\ enhanced_users[1].total_pnl = <<17, 50>>

\* Every live-position entry has a size, tokens and price float() accepts.
LiveParsed(live) ==
    \A j \in 1..Len(live) :
        /\ live[j].size.tag # "badstr"
        /\ live[j].tokens.tag # "badstr"
        /\ live[j].price.tag # "badstr"

\* C18: total_pnl of the profile enhance_user appends is the full-precision
\* realized PnL plus the full-precision unrealized PnL, rounded once to 2
\* decimals.
C18_RoundedOnce ==
    [][(pc = "build_row" /\ pc' = "main_loop" /\ LiveParsed(live_items)) =>
          enhanced_users'[Len(enhanced_users')].total_pnl =
              Round2(RAdd(realized_pnl, unrealized_pnl))]_vars

\* current_size of a live-position entry: its size, or its tokens when the
\* size is absent or 0.
CurrentSize(item) ==
    IF FieldOrZero(item.size) # Zero THEN FieldOrZero(item.size)
    ELSE FieldOrZero(item.tokens)

LiveMatches(item) ==
    /\ <<item.market, item.outcome>> \in DOMAIN open_positions
    /\ open_positions[<<item.market, item.outcome>>].shares[1] > 0

\* Sum of current_size * current_price over every entry.
RECURSIVE SumLiveValue(_)
SumLiveValue(live) ==
    IF live = <<>> THEN Zero
    ELSE RAdd(RMul(CurrentSize(Head(live)), FieldOrZero(Head(live).price)),
              SumLiveValue(Tail(live)))

\* Sum over the matching entries of
\* current_size * current_price - current_size * (cost_basis / shares).
RECURSIVE SumLiveUnrealized(_)
SumLiveUnrealized(live) ==
    IF live = <<>> THEN Zero
    ELSE LET item == Head(live)
             p    == open_positions[<<item.market, item.outcome>>]
             term == IF LiveMatches(item)
                     THEN RSub(RMul(CurrentSize(item), FieldOrZero(item.price)),
                               RMul(CurrentSize(item), RDiv(p.cost_basis, p.shares)))
                     ELSE Zero
         IN  RAdd(term, SumLiveUnrealized(Tail(live)))

\* C19: position_value_dollars is the sum of current_size * current_price
\* over every live-position entry, matching an open ledger position or not
\* (the reported field is that sum rounded to 2 decimals); entries matching
\* no ledger position add nothing to unrealized_pnl.
C19_ValueOverEveryEntry ==
    (pc = "build_row" /\ LiveParsed(live_items)) =>
        /\ position_value_dollars = SumLiveValue(live_items)
        /\ position_metrics.position_value_dollars = Round2(SumLiveValue(live_items))
        /\ (\A j \in 1..Len(live_items) : ~LiveMatches(live_items[j]))
               => unrealized_pnl = Zero /\ position_metrics.unrealized_pnl = Zero

\* One entry on an open position and one on a key the ledger does not hold.
C19_UnmatchedEntryValued ==
    /\ pc = "build_row"
    /\ live_items = <<Live(K1, Num(2), Missing, Num(3)), Live(K2, Num(2), Missing, Num(1))>>
    /\ DOMAIN open_positions = {K1}
    /\ position_value_dollars = R(8)
    /\ position_metrics.position_value_dollars = R(8)

\* C20: unrealized_pnl is the sum, over the entries whose key matches a
\* ledger position with shares > 0, of
\* current_size * current_price - current_size * (cost_basis / shares),
\* with the size the entry reports (the reported field is that sum rounded
\* to 2 decimals).
C20_UnrealizedOverMatched ==
    (pc = "build_row" /\ LiveParsed(live_items)) =>
        /\ unrealized_pnl = SumLiveUnrealized(live_items)
        /\ position_metrics.unrealized_pnl = Round2(SumLiveUnrealized(live_items))

\* The ledger holds 15 shares bought for 25; the entry reports 2 at 3.
C20_ReportedSizeUsed ==
    /\ pc = "build_row"
    /\ live_items = <<Live(K1, Num(2), Missing, Num(3))>>
    /\ K1 \in DOMAIN open_positions
    /\ open_positions[K1] = [shares |-> R(15), cost_basis |-> R(25)]
    /\ unrealized_pnl = <<8, 3>>
    /\ position_metrics.unrealized_pnl = <<267, 100>>

(* ----------------------- claims C21 .. C30 ----------------------------- *)

\* The row the step appends to enhanced_users.
NewRow == enhanced_users'[Len(enhanced_users')]

\* The step on which enhance_user returns its row to main.
RowStep == pc = "build_row" /\ pc' = "main_loop"

\* C21: a failed trade fetch is caught and returns all-zero metrics with an
\* empty position mapping, the positions step still runs with that empty
\* mapping, and the row's realized_pnl, unrealized_pnl and total_pnl are 0;
\* a failed positions fetch gives position_value_dollars = 0 and
\* unrealized_pnl = 0 and keeps the trade metrics.
C21_FetchFailuresZeroed ==
    [][/\ (pc = "fetch_trades" /\ pc' = "unpack" /\ ret'.kind = "tuple")
              => /\ ret'.elems[1].total_dollar_volume = Zero
                 /\ ret'.elems[1].avg_trade_dollars = Zero
                 /\ ret'.elems[1].realized_pnl = Zero
                 /\ ret'.elems[1].win_rate = Zero
                 /\ ret'.elems[1].winning_trades = 0
                 /\ ret'.elems[1].losing_trades = 0
                 /\ ret'.elems[1].total_trades = 0
                 /\ DOMAIN ret'.elems[2] = {}
       /\ (pc = "unpack" /\ ret.kind = "tuple" /\ ret.elems[1].total_trades = 0
               /\ pc' # pc)
              => pc' = "fetch_positions" /\ DOMAIN open_positions' = {}
       /\ (RowStep /\ trade_metrics.total_trades = 0)
              => /\ NewRow.realized_pnl = Zero
                 /\ NewRow.unrealized_pnl = Zero
                 /\ NewRow.total_pnl = Zero
       /\ (RowStep /\ (live_items = <<>> \/ ~LiveParsed(live_items)))
              => /\ NewRow.position_value_dollars = Zero
                 /\ NewRow.unrealized_pnl = Zero
                 /\ NewRow.realized_pnl = Round2(realized_pnl)
                 /\ NewRow.total_dollar_volume = Round2(total_dollar_volume)
                 /\ NewRow.winning_trades = winning_trades
                 /\ NewRow.losing_trades = losing_trades]_vars

\* The trade fetch failed and the positions step still valued a live
\* position of 2 at 3.
C21_PositionsRunAfterTradeFailure ==
    /\ Len(enhanced_users) = 1
    /\ enhanced_users[1].total_dollar_volume = Zero
    /\ enhanced_users[1].position_value_dollars = R(6)
    /\ enhanced_users[1].unrealized_pnl = Zero
    /\ enhanced_users[1].total_pnl = Zero

\* A matched SELL whose size exceeds the shares held.
OversellStep ==
    /\ SellStep /\ HoldsShares
    /\ RPos(RSub(CurItem.size.val, positions[KeyOf(CurItem)].shares))

\* C22: a SELL larger than the shares held is attributed with
\* cost_of_sold = avg_cost * the full sold size, its entry is removed, no
\* negative shares remain in the mapping, and a SELL on a key without an
\* entry is treated as unmatched.
C22_OversellAttributedAndClosed ==
    [][/\ OversellStep =>
              /\ realized_pnl' =
                     RAdd(realized_pnl,
                          RSub(CurDollars,
                               RMul(RDiv(positions[KeyOf(CurItem)].cost_basis,
                                         positions[KeyOf(CurItem)].shares),
                                    CurItem.size.val)))
              /\ KeyOf(CurItem) \notin DOMAIN positions'
              /\ \A k \in DOMAIN positions' : positions'[k].shares[1] >= 0
       /\ (SellStep /\ KeyOf(CurItem) \notin DOMAIN positions) =>
              UNCHANGED <<positions, realized_pnl, winning_trades, losing_trades>>]_vars

\* BUY 5 @ 2, SELL 10 @ 3 (pnl 30 - 20), then a further SELL 5 @ 1.
C22_SellAfterOversell ==
    /\ pc = "trade_loop" /\ item_idx = 3
    /\ items[1] = Trade(BUY, K1, Num(5), Num(2))
    /\ items[2] = Trade(SELL, K1, Num(10), Num(3))
    /\ items[3] = Trade(SELL, K1, Num(5), Num(1))
    /\ realized_pnl = R(10) /\ winning_trades = 1 /\ losing_trades = 0
    /\ K1 \notin DOMAIN positions

\* The trade list [BUY 100 @ 0.30, BUY 50 @ 0.50, SELL 80 @ 0.60] on one key.
ScenarioItems ==
    <<Trade(BUY, K1, Num(100), Dec(3, 10)),
      Trade(BUY, K1, Num(50), Dec(1, 2)),
      Trade(SELL, K1, Num(80), Dec(3, 5))>>

\* C23: after [BUY 100 @ 0.30, BUY 50 @ 0.50, SELL 80 @ 0.60] on one key the
\* ledger holds shares 70 and cost_basis 70 * (55/150) (25.67 to 2
\* decimals), realized_pnl is 48 - 80 * (55/150) (18.67 to 2 decimals),
\* winning_trades is 1 and losing_trades is 0.
C23_EndToEndScenario ==
    /\ (pc = "trade_loop" /\ items = ScenarioItems /\ item_idx = 3) =>
           /\ DOMAIN positions = {K1}
           /\ positions[K1].shares = R(70)
           /\ positions[K1].cost_basis = RMul(R(70), RDiv(R(55), R(150)))
           /\ Round2(positions[K1].cost_basis) = <<2567, 100>>
           /\ realized_pnl = RSub(R(48), RMul(R(80), RDiv(R(55), R(150))))
           /\ winning_trades = 1 /\ losing_trades = 0
    /\ (pc = "unpack" /\ items = ScenarioItems /\ ret.kind = "tuple") =>
           /\ ret.elems[1].realized_pnl = <<1867, 100>>
           /\ ret.elems[1].winning_trades = 1
           /\ ret.elems[1].losing_trades = 0
           /\ ret.elems[2] = positions

\* The scenario has been processed and its metrics returned.
C23_ScenarioReturned ==
    /\ pc = "unpack" /\ items = ScenarioItems /\ ret.kind = "tuple"
    /\ ret.elems[1].realized_pnl = <<1867, 100>>
    /\ K1 \in DOMAIN ret.elems[2]
    /\ ret.elems[2][K1].shares = R(70)

\* The ledger obtained from the first n trades of its alone, starting from
\* an empty mapping and zero counters.
RECURSIVE OwnLedger(_, _)
OwnLedger(its, n) ==
    IF n = 0
    THEN [volume |-> Zero, count |-> 0, positions |-> EmptyDict,
          realized |-> Zero, w |-> 0, l |-> 0]
    ELSE LET st   == OwnLedger(its, n - 1)
             item == its[n]
             key  == KeyOf(item)
             amt  == RMul(item.size.val, item.price.val)
             base == [st EXCEPT !.volume = RAdd(st.volume, amt), !.count = st.count + 1]
         IN  IF IsBuyAnyCase(item.side)
             THEN [base EXCEPT !.positions = ApplyBuy(st.positions, key, item.size.val, amt)]
             ELSE IF IsSellAnyCase(item.side) /\ Matched(st.positions, key)
             THEN LET pnl == TradePnl(st.positions[key], item.size.val, amt)
                  IN  [base EXCEPT
                          !.positions = ApplySell(st.positions, key, item.size.val),
                          !.realized = RAdd(st.realized, pnl),
                          !.w = IF pnl[1] > 0 THEN st.w + 1 ELSE st.w,
                          !.l = IF pnl[1] < 0 THEN st.l + 1 ELSE st.l]
             ELSE base

\* C24: whatever wallets were processed before, a wallet's mapping and
\* counters are those of its own trades alone, its metrics and row are
\* built from its own trade list and live-position list, the rows already
\* produced are left as they were, and the input rows are not modified.
C24_WalletsIsolated ==
    [][/\ users' = users
       /\ \A j \in 1..Len(enhanced_users) :
              Len(enhanced_users') >= j /\ enhanced_users'[j] = enhanced_users[j]
       /\ pc' = "trade_loop" =>
              LET own == OwnLedger(items', item_idx')
              IN  /\ positions' = own.positions
                  /\ realized_pnl' = own.realized
                  /\ winning_trades' = own.w
                  /\ losing_trades' = own.l
                  /\ total_dollar_volume' = own.volume
                  /\ trade_count' = own.count
       /\ (pc = "unpack" /\ pc' = "fetch_positions") =>
              LET own == OwnLedger(items, Len(items))
              IN  /\ open_positions' = own.positions
                  /\ trade_metrics' =
                         Metrics(own.volume, own.count, own.realized, own.w, own.l)
       /\ (pc = "fetch_positions" /\ pc' = "build_row") =>
              position_metrics' = PositionMetrics(live_items', open_positions)
       /\ RowStep =>
              /\ Len(enhanced_users') = Len(enhanced_users) + 1
              /\ NewRow.wallet = users[i + 1].wallet
              /\ NewRow.realized_pnl = trade_metrics.realized_pnl
              /\ NewRow.total_dollar_volume = trade_metrics.total_dollar_volume
              /\ NewRow.winning_trades = trade_metrics.winning_trades
              /\ NewRow.losing_trades = trade_metrics.losing_trades
              /\ NewRow.unrealized_pnl = position_metrics.unrealized_pnl
              /\ NewRow.position_value_dollars =
                     position_metrics.position_value_dollars]_vars

\* The first wallet bought 10 on a key and was reported; the second sells
\* 5 on the same key and holds nothing to match it.
C24_SecondWalletStartsEmpty ==
    /\ pc = "trade_loop" /\ i = 1 /\ Len(enhanced_users) = 1
    /\ enhanced_users[1].total_dollar_volume = R(10)
    /\ enhanced_users[1].winning_trades = 0
    /\ items = <<Trade(SELL, K1, Num(5), Num(3))>> /\ item_idx = 1
    /\ positions = EmptyDict /\ realized_pnl = Zero

\* C25: a call of call_llm for a configured provider with its key set ends
\* by returning scores (after at most two attempts, the neutral scores if
\* both responses were invalid), never by raising.
C25_CallReturnsScores ==
    ProviderConfigured => llm_pc # "crashed"

\* C26 (returned size): the list fetch_all_markets returns holds at most
\* limit markets, whatever the pages held.
C26_AtMostLimit ==
    markets_pc = "done" => markets_ret <= limit

\* The cost basis a mapping holds for key k: 0 when k has no entry.
BasisOf(pos, k) == IF k \in DOMAIN pos THEN pos[k].cost_basis ELSE Zero

\* A matched SELL of no more than the shares held.
CoveredSellStep ==
    /\ SellStep /\ HoldsShares
    /\ RGeq(positions[KeyOf(CurItem)].shares, CurItem.size.val)

\* avg_cost * size of the current SELL.
CurCostOfSold ==
    RMul(RDiv(positions[KeyOf(CurItem)].cost_basis, positions[KeyOf(CurItem)].shares),
         CurItem.size.val)

\* C27: cost is conserved per key: a BUY adds its size * price to the key's
\* cost basis, a matched SELL of no more than the shares held splits the
\* key's cost basis into cost_of_sold and the basis of what remains (0 if
\* closed), and nothing else changes a key's cost basis; so the BUY costs
\* of a key sum to its cost_of_sold total plus its remaining cost basis.
C27_CostConserved ==
    [][LoopStep =>
          \A k \in Keys :
              IF k = KeyOf(CurItem) /\ BuyStep
              THEN BasisOf(positions', k) = RAdd(BasisOf(positions, k), CurDollars)
              ELSE IF k = KeyOf(CurItem) /\ SellStep /\ HoldsShares
              THEN CoveredSellStep =>
                       BasisOf(positions, k) =
                           RAdd(CurCostOfSold, BasisOf(positions', k))
              ELSE BasisOf(positions', k) = BasisOf(positions, k)]_vars

\* BUY 5 @ 1 and BUY 10 @ 2 cost 25; SELL 5 @ 2 takes 25/3 and leaves 50/3.
C27_BasisSplitBySell ==
    /\ pc = "trade_loop" /\ item_idx = 3
    /\ items[1] = Trade(BUY, K1, Num(5), Num(1))
    /\ items[2] = Trade(BUY, K1, Num(10), Num(2))
    /\ items[3] = Trade(SELL, K1, Num(5), Num(2))
    /\ K1 \in DOMAIN positions
    /\ positions[K1].cost_basis = <<50, 3>>
    /\ realized_pnl = <<5, 3>>

\* The trades on key k among the first n trades of its, in order.
RECURSIVE KeyTrades(_, _, _)
KeyTrades(its, n, k) ==
    IF n = 0 THEN <<>>
    ELSE IF KeyOf(its[n]) = k THEN Append(KeyTrades(its, n - 1, k), its[n])
         ELSE KeyTrades(its, n - 1, k)

\* The ledger of the trades on key k alone, among those processed so far.
AloneOn(k) ==
    OwnLedger(KeyTrades(items, item_idx, k), Len(KeyTrades(items, item_idx, k)))

\* C28: after any prefix, the entry of every key (present or absent, shares
\* and cost_basis) is the one obtained by running the ledger on that key's
\* trades alone, and realized_pnl and the win and loss counters are the
\* sums of the per-key results, whatever trades on other keys are
\* interleaved.
C28_PerKeyIndependent ==
    pc = "trade_loop" =>
        /\ \A k \in Keys :
               /\ (k \in DOMAIN positions) <=> (k \in DOMAIN AloneOn(k).positions)
               /\ (k \in DOMAIN positions) => positions[k] = AloneOn(k).positions[k]
        /\ realized_pnl = RAdd(AloneOn(K1).realized, AloneOn(K2).realized)
        /\ winning_trades = AloneOn(K1).w + AloneOn(K2).w
        /\ losing_trades = AloneOn(K1).l + AloneOn(K2).l

\* A position on m2 is opened between the BUY and the closing SELL on m1.
C28_InterleavedKeys ==
    /\ pc = "trade_loop" /\ item_idx = 3
    /\ items[1] = Trade(BUY, K1, Num(5), Num(1))
    /\ items[2] = Trade(BUY, K2, Num(5), Num(1))
    /\ items[3] = Trade(SELL, K1, Num(5), Num(2))
    /\ DOMAIN positions = {K2}
    /\ positions[K2] = [shares |-> R(5), cost_basis |-> R(5)]
    /\ realized_pnl = R(5)

\* Number of SELL trades among the first n trades of its.
RECURSIVE SellsIn(_, _)
SellsIn(its, n) ==
    IF n = 0 THEN 0
    ELSE SellsIn(its, n - 1) + (IF IsSellAnyCase(its[n].side) THEN 1 ELSE 0)

\* A rate between 0 and 100.
IsPercent(x) == x[1] >= 0 /\ x[1] <= 100 * x[2]

\* C29: after any prefix, winning_trades + losing_trades is at most the
\* number of SELLs processed, which is at most total_trades; no loop step
\* decreases winning_trades, losing_trades or total_trades; and every
\* win rate returned or reported lies in [0, 100].
C29_CountersBounded ==
    [][/\ pc' = "trade_loop" =>
              /\ winning_trades' + losing_trades' <= SellsIn(items', item_idx')
              /\ SellsIn(items', item_idx') <= trade_count'
              /\ trade_count' = item_idx'
       /\ LoopStep =>
              /\ winning_trades' >= winning_trades
              /\ losing_trades' >= losing_trades
              /\ trade_count' >= trade_count
       /\ pc' = "unpack" =>
              /\ IsPercent(ret'.elems[1].win_rate)
              /\ ret'.elems[1].winning_trades + ret'.elems[1].losing_trades
                     <= ret'.elems[1].total_trades
       /\ \A j \in 1..Len(enhanced_users') :
              IsPercent(enhanced_users'[j].win_rate_percent)]_vars

\* An unmatched SELL, a BUY, a winning SELL and a break-even SELL: one win,
\* three SELLs, four trades.
C29_FewerWinsThanSells ==
    /\ pc = "trade_loop" /\ item_idx = 4
    /\ items[1] = Trade(SELL, K1, Num(2), Num(3))
    /\ items[2] = Trade(BUY, K1, Num(10), Num(2))
    /\ items[3] = Trade(SELL, K1, Num(2), Num(3))
    /\ items[4] = Trade(SELL, K1, Num(2), Num(2))
    /\ winning_trades = 1 /\ losing_trades = 0 /\ trade_count = 4

\* Sum of the realized PnL of the records, and the number of records with
\* a positive one.
RECURSIVE SumClosedPnl(_)
SumClosedPnl(its) ==
    IF its = <<>> THEN Zero
    ELSE RAdd(FieldOrZero(Head(its).realizedPnl), SumClosedPnl(Tail(its)))

PositivePnl(its) ==
    {j \in 1..Len(its) : FieldOrZero(its[j].realizedPnl)[1] > 0}

\* winning_positions_count / closed_positions_count of the row, unrounded.
RowWinFraction ==
    IF user_row.closed_positions_count > 0
    THEN RDiv(R(user_row.winning_positions_count), R(user_row.closed_positions_count))
    ELSE Zero

\* C30 as stated: winning_positions_count <= closed_positions_count and
\* win_rate equals winning_positions_count / closed_positions_count, 0 when
\* there are no closed positions.
C30_WinRateExact ==
    fin_pc = "done" =>
        /\ user_row.winning_positions_count <= user_row.closed_positions_count
        /\ user_row.win_rate = RowWinFraction

\* C30 amended: win_rate equals that fraction rounded to 4 decimals and
\* lies in [0, 1]; the cash volume field is the trades fetch's result
\* whatever became of the closed-positions fetch; a failed closed-positions
\* fetch zeroes realized_pnl, both counts and win_rate only; and a
\* closed-positions fetch that succeeded gives its count, wins and PnL
\* whatever became of the trades fetch.
C30_WinRateRounded ==
    fin_pc = "done" =>
        /\ user_row.winning_positions_count <= user_row.closed_positions_count
        /\ user_row.win_rate = RoundTo(RowWinFraction, 10000)
        /\ user_row.win_rate[1] >= 0 /\ user_row.win_rate[1] <= user_row.win_rate[2]
        /\ user_row.total_cash_volume = RoundTo(total_cash_volume, 1000000)
        /\ IF ClosedParsed(closed_items)
           THEN /\ user_row.closed_positions_count = Len(closed_items)
                /\ user_row.winning_positions_count =
                       Cardinality(PositivePnl(closed_items))
                /\ user_row.realized_pnl =
                       RoundTo(SumClosedPnl(closed_items), 1000000)
           ELSE /\ user_row.closed_positions_count = 0
                /\ user_row.winning_positions_count = 0
                /\ user_row.realized_pnl = Zero
                /\ user_row.win_rate = Zero

\* One winner among three closed positions, and no cash volume because the
\* trades fetch gave nothing.
C30_OneOfThreeWithoutTrades ==
    /\ fin_pc = "done"
    /\ closed_items = <<ClosedRecord(Num(2)), ClosedRecord(Num(-1)), ClosedRecord(Num(-1))>>
    /\ user_row.total_cash_volume = Zero
    /\ user_row.realized_pnl = Zero
    /\ user_row.winning_positions_count = 1
    /\ user_row.win_rate = <<3333, 10000>>

====
